---- MODULE Spec2Model ----
(***************************************************************************)
(* Model of the 2D drawing application of Source.cpp: the GraphicsApp      *)
(* event loop (run / handleEvents / drawShapes), its button hit tests and  *)
(* the shapes it builds from two mouse clicks.                             *)
(***************************************************************************)
EXTENDS Integers, Sequences, FiniteSets, TLC

(* Bound on the number of shapes the model lets a run allocate. *)
MaxCommits == 2

(* Bound on the shapes a run of SpecAll allocates. *)
MaxPlacements == 1

-----------------------------------------------------------------------------
(* Button layer *)

(* Contains with the right and the bottom edge counted in. *)
ContainsClosed(pos, size, p) ==
    /\ p[1] >= pos[1] /\ p[1] <= pos[1] + size[1]
    /\ p[2] >= pos[2] /\ p[2] <= pos[2] + size[2]

(* sf::Rect<float>::contains as SFML 2 defines it: left/top edges are      *)
(* inside, right/bottom edges are outside.                                 *)
Contains(pos, size, p) ==
    /\ p[1] >= pos[1] /\ p[1] < pos[1] + size[1]
    /\ p[2] >= pos[2] /\ p[2] < pos[2] + size[2]

ButtonSize == <<100, 50>>
lineButton == [position |-> <<10, 10>>, size |-> ButtonSize]
rectButton == [position |-> <<120, 10>>, size |-> ButtonSize]
circleButton == [position |-> <<230, 10>>, size |-> ButtonSize]
clearButton == [position |-> <<340, 10>>, size |-> ButtonSize]
saveButton == [position |-> <<450, 10>>, size |-> ButtonSize]
undoButton == [position |-> <<560, 10>>, size |-> ButtonSize]

Buttons == {lineButton, rectButton, circleButton, clearButton, saveButton, undoButton}

isClicked(button, mousePos) == Contains(button.position, button.size, mousePos)

(* The tool whose button contains point p, "None" when p is in no tool     *)
(* button.                                                                 *)
ToolAt(p) ==
    IF isClicked(lineButton, p) THEN "Line"
    ELSE IF isClicked(rectButton, p) THEN "Rectangle"
    ELSE IF isClicked(circleButton, p) THEN "Circle"
    ELSE "None"

HitsButton(p) == \E b \in Buttons : isClicked(b, p)

-----------------------------------------------------------------------------
(* Shape model *)

ShapeType == {"None", "Line", "Rectangle", "Circle"}

RECURSIVE ISqrtIn(_, _, _)
ISqrtIn(n, lo, hi) ==
    IF lo >= hi THEN lo
    ELSE LET mid == (lo + hi + 1) \div 2
         IN  IF mid * mid <= n THEN ISqrtIn(n, mid, hi) ELSE ISqrtIn(n, lo, mid - 1)

(* Sqrt whose result is cut to an integer. *)
SqrtTruncated(n) ==
    [whole |-> ISqrtIn(n, 0, 46340), exact |-> TRUE]

(* std::sqrt of a non-negative integer-valued sum of squares: the result   *)
(* is the integer root when n is a perfect square and otherwise an inexact *)
(* floating-point value strictly between whole and whole + 1.              *)
Sqrt(n) ==
    LET r == ISqrtIn(n, 0, 46340)
    IN  [whole |-> r, exact |-> (r * r = n)]

Line(id, start, end) ==
    [id |-> id, kind |-> "Line", p0 |-> start, p1 |-> end]

Rectangle(id, position, size) ==
    [id |-> id, kind |-> "Rectangle", position |-> position, size |-> size]

Circle(id, position, radius) ==
    [id |-> id, kind |-> "Circle", position |-> position, radius |-> radius]

-----------------------------------------------------------------------------
(* Inputs *)

InLine == <<60, 30>>
InRect == <<170, 30>>
InCircle == <<280, 30>>
InClear == <<390, 30>>
InSave == <<500, 30>>
InUndo == <<610, 30>>
OnCanvas == <<200, 300>>

(* Positions the pointer can have: one inside each button, one on the     *)
(* free canvas.                                                            *)
Points == {InLine, InRect, InCircle, InClear, InSave, InUndo, OnCanvas}

(* Coordinates the click events of the main specification carry. *)
EndPoints == {InUndo, OnCanvas}

NoPos == <<0, 0>>

(* One sf::Event as handleEvents sees it: its type, the coordinates the    *)
(* event carries (event.mouseButton), the pointer position that            *)
(* sf::Mouse::getPosition returns while the event is handled, and what     *)
(* sf::Keyboard::isKeyPressed(C) returns in that loop pass; writeOk is     *)
(* what saveToFile would return if the pass saves the drawing.             *)
Click(pos, mouse, keyC) ==
    [type |-> "MouseButtonPressed", pos |-> pos, mouse |-> mouse, keyC |-> keyC,
     writeOk |-> TRUE]

(* A click handled with the pointer on the Save button when drawing.png    *)
(* cannot be written.                                                      *)
FailedSaves ==
    {[Click(OnCanvas, InSave, k) EXCEPT !.writeOk = FALSE] : k \in BOOLEAN}

NonClicks ==
    [type : {"Closed", "Other"}, pos : {NoPos}, mouse : {NoPos}, keyC : BOOLEAN,
     writeOk : {TRUE}]

(* Clicks on the free canvas, handled while the pointer is anywhere, and   *)
(* clicks at the other end point, handled while the pointer is at either   *)
(* end point.                                                              *)
Events ==
    {Click(OnCanvas, m, k) : m \in Points, k \in BOOLEAN}
    \cup {Click(InUndo, m, k) : m \in EndPoints, k \in BOOLEAN}
    \cup FailedSaves \cup NonClicks

(* Click coordinates of the second specification: inside a tool button,   *)
(* inside each command button, and on the free canvas.                     *)
ClickPoints == {InLine, InClear, InSave, InUndo, OnCanvas}

(* Clicks at every click point, handled while the pointer is still there   *)
(* or after it has moved on to the free canvas, and clicks on the canvas   *)
(* handled when the pointer has reached another tool button.               *)
AllEvents ==
    {Click(p, OnCanvas, k) : p \in ClickPoints, k \in BOOLEAN}
    \cup {Click(p, p, k) : p \in ClickPoints, k \in BOOLEAN}
    \cup {Click(OnCanvas, m, k) : m \in {InRect, InCircle}, k \in BOOLEAN}
    \cup NonClicks

-----------------------------------------------------------------------------
VARIABLES
    isOpen,             \* window.isOpen()
    shapes,             \* GraphicsApp::shapes
    undoStack,          \* GraphicsApp::undoStack
    currentShapeType,   \* GraphicsApp::currentShapeType
    isDrawing,          \* GraphicsApp::isDrawing
    startPos,           \* GraphicsApp::startPos
    nextId,             \* identity of the next make_shared allocation
    pc,                 \* position in run(): "events", "draw" or "done"
    last,               \* the loop pass just executed: event type, branch taken, key state,
                        \* click and pointer position, lengths of canvas and undo stack
                        \* before it, what it rendered for export and how the write ended
    scenario,           \* progress of a select-tool, click, click sequence of click events
    placement,          \* tool pressed since the last commit, canvas clicks consumed since
    clearedUpTo         \* highest shape identity allocated before the last Clear press

vars == <<isOpen, shapes, undoStack, currentShapeType, isDrawing, startPos, nextId, pc, last, scenario, placement, clearedUpTo>>

(* The GraphicsApp object; branch records which branch of the click       *)
(* handling the current loop pass has taken, texture what the pass has     *)
(* drawn on the export texture, saved how its write of drawing.png ended.  *)
app == [isOpen |-> isOpen, shapes |-> shapes, undoStack |-> undoStack,
        currentShapeType |-> currentShapeType, isDrawing |-> isDrawing,
        startPos |-> startPos, nextId |-> nextId, branch |-> "none",
        texture |-> <<>>, saved |-> "none"]

Front(s) == SubSeq(s, 1, Len(s) - 1)

-----------------------------------------------------------------------------
(* GraphicsApp::handleEvents, one pass of its while loop for event e *)

(* ClosePass that closes the window on every event that is not a click. *)
ClosePassOnAnyEvent(a, e) ==
    IF e.type # "MouseButtonPressed" THEN [a EXCEPT !.isOpen = FALSE] ELSE a

(* if (event.type == sf::Event::Closed) window.close(); *)
ClosePass(a, e) ==
    IF e.type = "Closed" THEN [a EXCEPT !.isOpen = FALSE] ELSE a

(* currentShapeType = ShapeType::X for the tool button pressed. *)
ToolPress(a, type, name) ==
    [a EXCEPT !.currentShapeType = type, !.branch = name]

(* ClearPress without undoStack.clear(). *)
ClearPressKeepsUndo(a) ==
    [a EXCEPT !.shapes = <<>>, !.branch = "clear"]

(* ClearPress that also drops the tool selection. *)
ClearPressResetsTool(a) ==
    [a EXCEPT !.shapes = <<>>, !.undoStack = <<>>, !.currentShapeType = "None",
              !.branch = "clear"]

(* shapes.clear(); undoStack.clear(); of the Clear button. *)
ClearPress(a) ==
    [a EXCEPT !.shapes = <<>>, !.undoStack = <<>>, !.branch = "clear"]

(* UndoPress taking the oldest shape instead of the last one. *)
UndoPressOldest(a) ==
    IF a.shapes # <<>>
      THEN [a EXCEPT !.undoStack = Append(a.undoStack, a.shapes[1]),
                     !.shapes = Tail(a.shapes),
                     !.branch = "undo"]
      ELSE [a EXCEPT !.branch = "undo"]

(* UndoPress that, on an empty canvas, puts the last undone shape back. *)
UndoPressRedo(a) ==
    IF a.shapes # <<>>
      THEN [a EXCEPT !.undoStack = Append(a.undoStack, a.shapes[Len(a.shapes)]),
                     !.shapes = Front(a.shapes),
                     !.branch = "undo"]
      ELSE IF a.undoStack # <<>>
        THEN [a EXCEPT !.shapes = <<a.undoStack[Len(a.undoStack)]>>,
                       !.undoStack = Front(a.undoStack),
                       !.branch = "undo"]
        ELSE [a EXCEPT !.branch = "undo"]

(* UndoPress without shapes.pop_back(). *)
UndoPressCopies(a) ==
    IF a.shapes # <<>>
      THEN [a EXCEPT !.undoStack = Append(a.undoStack, a.shapes[Len(a.shapes)]),
                     !.branch = "undo"]
      ELSE [a EXCEPT !.branch = "undo"]

(* The Undo button: the last shape moves to the undo stack, if there is    *)
(* one.                                                                    *)
UndoPress(a) ==
    IF a.shapes # <<>>
      THEN [a EXCEPT !.undoStack = Append(a.undoStack, a.shapes[Len(a.shapes)]),
                     !.shapes = Front(a.shapes),
                     !.branch = "undo"]
      ELSE [a EXCEPT !.branch = "undo"]

instructions == [text |-> "Select a shape to draw. Press 'C' to clear."]

(* What drawShapes() draws on the window, in order: the six buttons, the   *)
(* instructions, the shapes.                                               *)
Frame(a) ==
    <<lineButton, rectButton, circleButton, clearButton, saveButton, undoButton,
      instructions>> \o a.shapes

(* saveDrawing that exports what the window shows. *)
saveDrawingOfWindow(a, e) ==
    [a EXCEPT !.texture = Frame(a),
              !.saved = IF e.writeOk THEN "written" ELSE "failed",
              !.branch = "save"]

(* saveDrawing(): draws the shapes, in order, on a cleared texture and     *)
(* writes it to drawing.png; the result of saveToFile is not looked at and *)
(* no field of the application changes.                                    *)
saveDrawing(a, e) ==
    [a EXCEPT !.texture = a.shapes,
              !.saved = IF e.writeOk THEN "written" ELSE "failed",
              !.branch = "save"]

(* CanvasClick without the test of currentShapeType. *)
CanvasClickAnyTool(a, mousePos) ==
    [a EXCEPT !.startPos = mousePos, !.isDrawing = TRUE, !.branch = "start"]

(* else if (currentShapeType != ShapeType::None): a click that hits no     *)
(* button begins the drawing at the pointer position.                      *)
CanvasClick(a, mousePos) ==
    IF a.currentShapeType # "None"
      THEN [a EXCEPT !.startPos = mousePos, !.isDrawing = TRUE, !.branch = "start"]
      ELSE [a EXCEPT !.branch = "ignored"]

(* FirstClick that, once a tool is selected, takes every click as the     *)
(* first click of a placement.                                             *)
FirstClickArmedFirst(a, e) ==
    LET mousePos == e.mouse
    IN  IF a.currentShapeType # "None" THEN CanvasClick(a, mousePos)
        ELSE IF isClicked(lineButton, mousePos) THEN ToolPress(a, "Line", "line")
        ELSE IF isClicked(rectButton, mousePos) THEN ToolPress(a, "Rectangle", "rect")
        ELSE IF isClicked(circleButton, mousePos) THEN ToolPress(a, "Circle", "circle")
        ELSE IF isClicked(clearButton, mousePos) THEN ClearPress(a)
        ELSE IF isClicked(undoButton, mousePos) THEN UndoPress(a)
        ELSE IF isClicked(saveButton, mousePos) THEN saveDrawing(a, e)
        ELSE CanvasClick(a, mousePos)

(* if (!isDrawing) { ... }: the buttons are tested in order against the    *)
(* pointer position mousePos; a click that hits none goes to the canvas.   *)
FirstClick(a, e) ==
    LET mousePos == e.mouse
    IN  IF isClicked(lineButton, mousePos) THEN ToolPress(a, "Line", "line")
        ELSE IF isClicked(rectButton, mousePos) THEN ToolPress(a, "Rectangle", "rect")
        ELSE IF isClicked(circleButton, mousePos) THEN ToolPress(a, "Circle", "circle")
        ELSE IF isClicked(clearButton, mousePos) THEN ClearPress(a)
        ELSE IF isClicked(undoButton, mousePos) THEN UndoPress(a)
        ELSE IF isClicked(saveButton, mousePos) THEN saveDrawing(a, e)
        ELSE CanvasClick(a, mousePos)

(* NewShape with the size of a rectangle made non-negative. *)
NewShapeNormalised(type, id, start, endPos) ==
    LET Abs(x) == IF x < 0 THEN -x ELSE x
    IN  IF type = "Line" THEN Line(id, start, endPos)
        ELSE IF type = "Rectangle"
          THEN Rectangle(id, start, <<Abs(endPos[1] - start[1]), Abs(endPos[2] - start[2])>>)
        ELSE Circle(id, start,
                    Sqrt((endPos[1] - start[1]) * (endPos[1] - start[1])
                         + (endPos[2] - start[2]) * (endPos[2] - start[2])))

(* The shape the second click builds from startPos and endPos. *)
NewShape(type, id, start, endPos) ==
    IF type = "Line" THEN Line(id, start, endPos)
    ELSE IF type = "Rectangle"
      THEN Rectangle(id, start, <<endPos[1] - start[1], endPos[2] - start[2]>>)
    ELSE Circle(id, start,
                Sqrt((endPos[1] - start[1]) * (endPos[1] - start[1])
                     + (endPos[2] - start[2]) * (endPos[2] - start[2])))

(* SecondClick that puts the new shape in front of the others. *)
SecondClickPrepends(a, e) ==
    [a EXCEPT !.shapes = <<NewShape(a.currentShapeType, a.nextId, a.startPos, e.pos)>>
                             \o a.shapes,
              !.nextId = a.nextId + 1,
              !.currentShapeType = "None",
              !.isDrawing = FALSE,
              !.branch = "commit"]

(* SecondClick that empties the undo stack when it commits a shape. *)
SecondClickClearsUndone(a, e) ==
    [a EXCEPT !.shapes = Append(a.shapes,
                  NewShape(a.currentShapeType, a.nextId, a.startPos, e.pos)),
              !.undoStack = <<>>,
              !.nextId = a.nextId + 1,
              !.currentShapeType = "None",
              !.isDrawing = FALSE,
              !.branch = "commit"]

(* SecondClick without currentShapeType = ShapeType::None. *)
SecondClickKeepsTool(a, e) ==
    [a EXCEPT !.shapes = Append(a.shapes,
                  NewShape(a.currentShapeType, a.nextId, a.startPos, e.pos)),
              !.nextId = a.nextId + 1,
              !.isDrawing = FALSE,
              !.branch = "commit"]

(* else { ... }: the second click completes the drawing with the event's   *)
(* own coordinates as endPos.                                              *)
SecondClick(a, e) ==
    LET endPos == e.pos
        pushed == IF a.currentShapeType = "None"
                    THEN a
                    ELSE [a EXCEPT !.shapes = Append(a.shapes,
                                       NewShape(a.currentShapeType, a.nextId, a.startPos, endPos)),
                                   !.nextId = a.nextId + 1]
    IN  [pushed EXCEPT !.currentShapeType = "None", !.isDrawing = FALSE, !.branch = "commit"]

(* MousePass with the buttons tested before the pending click is looked at. *)
MousePassButtonsFirst(a, e) ==
    IF e.type # "MouseButtonPressed" THEN a
    ELSE IF ~a.isDrawing \/ HitsButton(e.mouse) THEN FirstClick(a, e)
    ELSE SecondClick(a, e)

(* if (event.type == sf::Event::MouseButtonPressed) { ... } *)
MousePass(a, e) ==
    IF e.type # "MouseButtonPressed" THEN a
    ELSE IF ~a.isDrawing THEN FirstClick(a, e)
    ELSE SecondClick(a, e)

(* KeyPass that also drops the pending click. *)
KeyPassDropsPending(a, e) ==
    IF e.keyC
      THEN [a EXCEPT !.shapes = <<>>, !.undoStack = <<>>, !.isDrawing = FALSE]
      ELSE a

(* if (sf::Keyboard::isKeyPressed(sf::Keyboard::C)) { ... } *)
KeyPass(a, e) ==
    IF e.keyC THEN [a EXCEPT !.shapes = <<>>, !.undoStack = <<>>] ELSE a

NoScenario == [stage |-> 0, tool |-> "None", p |-> NoPos, q |-> NoPos, base |-> <<>>]

(* Follows the click events as the user makes them, by the coordinates each *)
(* event carries: stage 1 after a click on a tool button with no click       *)
(* pending (base is the canvas then), stage 2 after a next click at p        *)
(* outside every button, stage 3 after a next click at q.  Clicks made       *)
(* while the clear key is held, and other events, end the sequence.          *)
Track(t, a, e) ==
    IF e.type # "MouseButtonPressed" \/ e.keyC THEN NoScenario
    ELSE IF t.stage = 2 THEN [t EXCEPT !.stage = 3, !.q = e.pos]
    ELSE IF t.stage = 1 /\ ~HitsButton(e.pos) THEN [t EXCEPT !.stage = 2, !.p = e.pos]
    ELSE IF ~a.isDrawing /\ ToolAt(e.pos) # "None"
      THEN [stage |-> 1, tool |-> ToolAt(e.pos), p |-> NoPos, q |-> NoPos, base |-> a.shapes]
    ELSE NoScenario

ToolBranches == {"line", "rect", "circle"}

(* Bookkeeping of the placement in progress: armed once a tool button has  *)
(* been pressed and until the next commit; clicks counts the canvas clicks *)
(* consumed since that press.                                              *)
Placement(pl, branch) ==
    IF branch \in ToolBranches THEN [armed |-> TRUE, clicks |-> 0]
    ELSE IF branch = "start" THEN [pl EXCEPT !.clicks = pl.clicks + 1]
    ELSE IF branch = "commit" THEN [armed |-> FALSE, clicks |-> 0]
    ELSE pl

(* LoopBody with the key test ahead of the click handling. *)
LoopBodyKeyFirst(a, e) == MousePass(KeyPass(ClosePass(a, e), e), e)

(* The body of while (window.pollEvent(event)) for event e. *)
LoopBody(a, e) == KeyPass(MousePass(ClosePass(a, e), e), e)

(* One iteration of while (window.pollEvent(event)): a closed window       *)
(* delivers no event.                                                      *)
HandleEvent(e) ==
    /\ pc = "events"
    /\ isOpen
    /\ (e.type = "MouseButtonPressed" /\ isDrawing) => nextId <= MaxCommits
    /\ \E a \in {LoopBody(app, e)} :
           /\ isOpen' = a.isOpen
           /\ shapes' = a.shapes
           /\ undoStack' = a.undoStack
           /\ currentShapeType' = a.currentShapeType
           /\ isDrawing' = a.isDrawing
           /\ startPos' = a.startPos
           /\ nextId' = a.nextId
           /\ last' = [type |-> e.type, branch |-> a.branch, keyC |-> e.keyC,
                       pos |-> e.pos, mouse |-> e.mouse,
                       canvas |-> Len(shapes), undone |-> Len(undoStack),
                       texture |-> a.texture, saved |-> a.saved]
           /\ placement' = Placement(placement, a.branch)
           /\ clearedUpTo' = IF a.branch = "clear" THEN nextId - 1 ELSE clearedUpTo
    /\ scenario' = Track(scenario, app, e)
    /\ pc' = pc

(* window.pollEvent returns false: handleEvents returns to run(). *)
NoEvent ==
    /\ pc = "events"
    /\ pc' = "draw"
    /\ UNCHANGED <<isOpen, shapes, undoStack, currentShapeType, isDrawing, startPos, nextId, last, scenario, placement, clearedUpTo>>

(* drawShapes(), then the test of while (window.isOpen()). *)
DrawShapes ==
    /\ pc = "draw"
    /\ pc' = IF isOpen THEN "events" ELSE "done"
    /\ UNCHANGED <<isOpen, shapes, undoStack, currentShapeType, isDrawing, startPos, nextId, last, scenario, placement, clearedUpTo>>

Init ==
    /\ isOpen = TRUE
    /\ shapes = <<>>
    /\ undoStack = <<>>
    /\ currentShapeType = "None"
    /\ isDrawing = FALSE
    /\ startPos = <<0, 0>>
    /\ nextId = 1
    /\ pc = "events"
    /\ last = [type |-> "Init", branch |-> "none", keyC |-> FALSE, pos |-> NoPos,
               mouse |-> NoPos, canvas |-> 0, undone |-> 0,
               texture |-> <<>>, saved |-> "none"]
    /\ placement = [armed |-> FALSE, clicks |-> 0]
    /\ clearedUpTo = 0
    /\ scenario = NoScenario

Next ==
    \/ \E e \in Events : HandleEvent(e)
    \/ NoEvent
    \/ DrawShapes

Spec == Init /\ [][Next]_vars

(* One call of handleEvents that finds a queue of events of any length,   *)
(* with clicks at every click point and the pointer at or away from them,  *)
(* and at most MaxPlacements shapes.                                       *)
NextAll ==
    \E e \in AllEvents :
        /\ (e.type = "MouseButtonPressed" /\ isDrawing) => nextId <= MaxPlacements
        /\ HandleEvent(e)

SpecAll == Init /\ [][NextAll]_vars

(* Events of the specification of the run loop under fair scheduling:     *)
(* clicks on the free canvas handled while the pointer is on the Line      *)
(* button, a command button or the free canvas, and the events that are    *)
(* not clicks.                                                             *)
RunEvents ==
    {Click(OnCanvas, m, FALSE) : m \in {InLine, InClear, InSave, InUndo, OnCanvas}}
    \cup NonClicks

NextRun ==
    \/ \E e \in RunEvents : HandleEvent(e)
    \/ NoEvent
    \/ DrawShapes

(* The run loop as main executes it: the thread keeps running, so          *)
(* pollEvent comes to return false once the queue is drained (it does so   *)
(* at once on a closed window) and drawShapes returns.                     *)
SpecRun == Init /\ [][NextRun]_vars /\ WF_vars(NoEvent) /\ WF_vars(DrawShapes)

(* Click coordinates of the specification of the shape geometry: three    *)
(* points of the free canvas, the top left corner of the Line button, and  *)
(* a point inside the Rectangle and the Circle button.                     *)
GeomPoints == {<<0, 0>>, <<3, 4>>, <<5, 5>>, <<10, 10>>, InRect, InCircle}

(* Clicks handled while the pointer is still where the click was made. *)
GeomEvents == {Click(p, p, FALSE) : p \in GeomPoints}

NextGeom ==
    \E e \in GeomEvents :
        /\ (e.type = "MouseButtonPressed" /\ isDrawing) => nextId <= MaxPlacements
        /\ HandleEvent(e)

SpecGeom == Init /\ [][NextGeom]_vars

(* Pointer positions on the outline of the Line button, whose bounds are  *)
(* left 10, top 10, width 100, height 50: the four corners and the middle  *)
(* of each side; and the last pixel inside, next to the bottom right       *)
(* corner.                                                                 *)
EdgePoints ==
    {<<10, 10>>, <<110, 10>>, <<10, 60>>, <<110, 60>>,
     <<60, 10>>, <<110, 30>>, <<60, 60>>, <<10, 30>>, <<109, 59>>}

EdgeEvents == {Click(p, p, FALSE) : p \in EdgePoints}

NextEdges ==
    \E e \in EdgeEvents :
        /\ (e.type = "MouseButtonPressed" /\ isDrawing) => nextId <= MaxPlacements
        /\ HandleEvent(e)

SpecEdges == Init /\ [][NextEdges]_vars

TypeOK ==
    /\ isOpen \in BOOLEAN
    /\ currentShapeType \in ShapeType
    /\ isDrawing \in BOOLEAN
    /\ nextId \in 1..(MaxCommits + 1)
    /\ pc \in {"events", "draw", "done"}

-----------------------------------------------------------------------------
(* Properties *)

(* A step that handles one event (the other steps move pc). *)
EventStep == pc = "events" /\ pc' = "events"

(* Shape s is of type `type`, begins at start and has q as its end point. *)
BuiltFrom(s, type, start, q) ==
    /\ s.kind = type
    /\ type = "Line" => s.p0 = start /\ s.p1 = q
    /\ type = "Rectangle" =>
         /\ s.position = start
         /\ <<s.position[1] + s.size[1], s.position[2] + s.size[2]>> = q
    /\ type = "Circle" =>
         /\ s.position = start
         /\ LET d2 == (q[1] - start[1]) * (q[1] - start[1])
                      + (q[2] - start[2]) * (q[2] - start[2])
            IN  /\ s.radius.whole * s.radius.whole <= d2
                /\ d2 < (s.radius.whole + 1) * (s.radius.whole + 1)
                /\ s.radius.exact <=> s.radius.whole * s.radius.whole = d2

Ids(seq) == {seq[i].id : i \in 1..Len(seq)}

(* C1: after the click events (click on the button of tool T with no click *)
(* pending, click at p outside every button, click at q), none with the    *)
(* clear key held, the canvas is the canvas from before the sequence with  *)
(* exactly one shape appended, of type T and built from start p and end q, *)
(* the tool selection is None and no click is pending.                     *)
C1_SelectClickClickAppendsShape ==
    scenario.stage = 3 =>
        /\ Len(shapes) = Len(scenario.base) + 1
        /\ Front(shapes) = scenario.base
        /\ BuiltFrom(shapes[Len(shapes)], scenario.tool, scenario.p, scenario.q)
        /\ currentShapeType = "None"
        /\ ~isDrawing

(* C2: a click handled while a click is pending is never a button press,   *)
(* wherever the click and the pointer are: the pass takes the commit       *)
(* branch, constructs exactly one shape of the selected type from startPos *)
(* and the click's own position and appends it to the canvas, touches no   *)
(* other shape and not the undo stack, sets the tool to None and ends the  *)
(* pending click (the clear key, if held in that pass, then empties canvas *)
(* and undo stack as it does in every pass).                               *)
C2_PlacingClickIsEndpoint ==
    [][(EventStep /\ isDrawing /\ last'.type = "MouseButtonPressed") =>
          /\ last'.branch = "commit"
          /\ currentShapeType' = "None"
          /\ ~isDrawing'
          /\ nextId' = nextId + 1
          /\ IF last'.keyC
               THEN shapes' = <<>> /\ undoStack' = <<>>
               ELSE /\ Len(shapes') = Len(shapes) + 1
                    /\ Front(shapes') = shapes
                    /\ shapes'[Len(shapes')].id = nextId
                    /\ BuiltFrom(shapes'[Len(shapes')], currentShapeType, startPos, last'.pos)
                    /\ undoStack' = undoStack]_vars

(* A placement has just been completed by a click inside the Undo button   *)
(* region: the Circle is on the canvas and nothing was undone.             *)
C2_Witness ==
    /\ last.branch = "commit"
    /\ ~last.keyC
    /\ last.pos = InUndo
    /\ last.canvas = 0
    /\ Len(shapes) = 1
    /\ shapes[1].kind = "Circle"
    /\ undoStack = <<>>

(* C3: an Undo button press on a non-empty canvas removes exactly the last *)
(* canvas shape and appends that shape to the end of the undo stack; the   *)
(* canvas prefix and the earlier undo-stack entries are unchanged (the     *)
(* clear key, if held in that pass, then empties both).                    *)
C3_UndoMovesLastShape ==
    [][(EventStep /\ last'.branch = "undo" /\ shapes # <<>>) =>
          IF last'.keyC
            THEN shapes' = <<>> /\ undoStack' = <<>>
            ELSE /\ shapes' = Front(shapes)
                 /\ undoStack' = Append(undoStack, shapes[Len(shapes)])]_vars

(* Two shapes were committed and Undo was pressed twice: the canvas is     *)
(* empty and the undo stack holds both, the last-committed shape first.    *)
C3_Witness ==
    /\ last.branch = "undo"
    /\ ~last.keyC
    /\ last.canvas = 1
    /\ last.undone = 1
    /\ shapes = <<>>
    /\ Len(undoStack) = 2
    /\ undoStack[1].id = 2
    /\ undoStack[2].id = 1

(* C4: an Undo button press on an empty canvas leaves the canvas, the undo *)
(* stack, the tool selection and the pending click unchanged and does not  *)
(* end the event loop, whatever the undo stack holds (the clear key, if    *)
(* held in that pass, empties the undo stack as it does in every pass).    *)
C4_UndoOnEmptyCanvas ==
    [][(EventStep /\ last'.branch = "undo" /\ shapes = <<>>) =>
          /\ shapes' = <<>>
          /\ undoStack' = IF last'.keyC THEN <<>> ELSE undoStack
          /\ currentShapeType' = currentShapeType
          /\ isDrawing' = isDrawing
          /\ startPos' = startPos
          /\ nextId' = nextId
          /\ isOpen']_vars

(* Undo was pressed on an empty canvas while the undo stack held a shape   *)
(* and a tool was selected.                                                *)
C4_Witness ==
    /\ last.branch = "undo"
    /\ ~last.keyC
    /\ last.canvas = 0
    /\ last.undone = 1
    /\ Len(undoStack) = 1
    /\ currentShapeType = "Circle"

(* No shape allocated before the last Clear press is on the canvas or on   *)
(* the undo stack.                                                         *)
NoClearedShape ==
    \A id \in Ids(shapes) \cup Ids(undoStack) : id > clearedUpTo

(* C5: a Clear button press leaves the canvas and the undo stack empty,    *)
(* whatever they held, and no shape that existed before the press is ever  *)
(* on the canvas or the undo stack again.                                  *)
C5_ClearEmptiesBoth ==
    /\ []NoClearedShape
    /\ [][(EventStep /\ last'.branch = "clear") =>
             (shapes' = <<>> /\ undoStack' = <<>>)]_vars

(* Clear was pressed right after an Undo: the canvas held one shape and    *)
(* the undo stack one.                                                     *)
C5_Witness ==
    /\ last.branch = "clear"
    /\ ~last.keyC
    /\ last.canvas = 1
    /\ last.undone = 1
    /\ shapes = <<>>
    /\ undoStack = <<>>
    /\ clearedUpTo = 2

(* C6: after any event handled while the clear key is held, in whatever    *)
(* interaction state, the canvas and the undo stack are empty; this        *)
(* includes the second click of a placement, whose shape is wiped in the   *)
(* same pass.                                                              *)
C6_ClearKeyEmptiesBoth ==
    last.keyC => (shapes = <<>> /\ undoStack = <<>>)

(* The second click of a placement was handled with the clear key held: a  *)
(* shape was allocated and the canvas is empty.                            *)
C6_Witness ==
    /\ last.keyC
    /\ last.branch = "commit"
    /\ last.canvas = 1
    /\ nextId = 3
    /\ shapes = <<>>

(* C7: each shape is in at most one of the canvas and the undo stack, and  *)
(* at most once in it.                                                     *)
C7_ShapeInOnePlace ==
    Cardinality(Ids(shapes) \cup Ids(undoStack)) = Len(shapes) + Len(undoStack)

(* An Undo press has moved a shape while another stays on the canvas. *)
C7_Witness ==
    /\ last.branch = "undo"
    /\ ~last.keyC
    /\ Len(shapes) = 1
    /\ Len(undoStack) = 1

(* C8: a click is pending exactly when a tool is selected and exactly one  *)
(* canvas click has been consumed since the tool button was pressed,       *)
(* without its end point click; a pending click never coexists with tool   *)
(* selection None.                                                         *)
C8_PendingIffMidPlacement ==
    /\ isDrawing <=>
         (currentShapeType # "None" /\ placement.armed /\ placement.clicks = 1)
    /\ isDrawing => currentShapeType # "None"

(* The first click of a Rectangle placement has been consumed. *)
C8_Witness ==
    /\ isDrawing
    /\ last.branch = "start"
    /\ currentShapeType = "Rectangle"
    /\ startPos = OnCanvas

(* C9 as stated: with no click pending the tool selection is None unless   *)
(* the event handled last was a tool button press.                         *)
C9_ToolNoneUnlessJustPressed ==
    ~isDrawing => (currentShapeType = "None" \/ last.branch \in ToolBranches)

(* C9, amended: with no click pending the tool selection is None unless a  *)
(* tool button has been pressed since the last commit (or since the start) *)
(* and no canvas click has been consumed since; the selection outlives any *)
(* command press or other event handled in between.                        *)
C9_ToolNoneUnlessPressedSinceCommit ==
    (~isDrawing /\ currentShapeType # "None") =>
        (placement.armed /\ placement.clicks = 0)

(* A tool is still selected, with no click pending, after an Undo press. *)
C9_Witness ==
    /\ ~isDrawing
    /\ currentShapeType = "Line"
    /\ last.branch = "undo"

(* C10 as stated: a pass with the clear key held while a click is pending  *)
(* ends with no click pending and the tool selection unchanged.            *)
C10_KeyDiscardsPendingClick ==
    [][(EventStep /\ isDrawing /\ last'.keyC) =>
          (~isDrawing' /\ currentShapeType' = currentShapeType)]_vars

(* C10, amended: when the clear key fires while a click is pending, in a   *)
(* pass whose event is not a mouse click, the pending click and its start  *)
(* position are kept and the tool selection is unchanged; only the canvas  *)
(* and the undo stack are emptied.                                         *)
C10_KeyKeepsPendingClick ==
    [][(EventStep /\ isDrawing /\ last'.keyC /\ last'.type # "MouseButtonPressed") =>
          /\ isDrawing'
          /\ startPos' = startPos
          /\ currentShapeType' = currentShapeType
          /\ shapes' = <<>>
          /\ undoStack' = <<>>]_vars

(* The clear key fired on a non-click event while a click was pending and  *)
(* the canvas held a shape: the click is still pending.                    *)
C10_Witness ==
    /\ isDrawing
    /\ last.keyC
    /\ last.type = "Other"
    /\ last.canvas = 1
    /\ shapes = <<>>
    /\ currentShapeType = "Line"

(* C11: a press of Clear, Undo or Save, which is handled only when no      *)
(* click is pending, leaves the interaction state as it was: the tool      *)
(* selection keeps its value, None or a tool, and no click becomes         *)
(* pending; the stored start position is not touched either.               *)
C11_CommandKeepsInteraction ==
    [][(EventStep /\ last'.branch \in {"clear", "undo", "save"}) =>
          /\ ~isDrawing
          /\ ~isDrawing'
          /\ currentShapeType' = currentShapeType
          /\ startPos' = startPos]_vars

(* Clear was pressed while the Line tool was selected and the canvas held  *)
(* a shape: the tool is still selected and no click is pending.            *)
C11_Witness ==
    /\ last.branch = "clear"
    /\ last.canvas = 1
    /\ currentShapeType = "Line"
    /\ ~isDrawing

(* The tool a tool branch of the click handling selects. *)
ToolOfBranch(branch) ==
    IF branch = "line" THEN "Line"
    ELSE IF branch = "rect" THEN "Rectangle"
    ELSE IF branch = "circle" THEN "Circle"
    ELSE "None"

(* C12: a tool button press, handled with no click pending, sets the tool  *)
(* selection to that button's tool whatever tool was selected before, and  *)
(* leaves the absence of a pending click, the canvas and the undo stack    *)
(* as they were (the two are emptied when the clear key is held in the     *)
(* same pass); a click handled with the pointer inside a tool button while *)
(* no click is pending is always such a press, so it never starts a        *)
(* placement, also when a tool is selected already.                        *)
C12_ToolPressSelectsOnly ==
    [][/\ (EventStep /\ last'.branch \in ToolBranches) =>
             /\ ~isDrawing
             /\ ~isDrawing'
             /\ currentShapeType' = ToolOfBranch(last'.branch)
             /\ startPos' = startPos
             /\ nextId' = nextId
             /\ IF last'.keyC
                  THEN shapes' = <<>> /\ undoStack' = <<>>
                  ELSE shapes' = shapes /\ undoStack' = undoStack
       /\ (/\ EventStep
           /\ ~isDrawing
           /\ last'.type = "MouseButtonPressed"
           /\ ToolAt(last'.mouse) # "None") =>
             /\ last'.branch \in ToolBranches
             /\ currentShapeType' = ToolAt(last'.mouse)
             /\ ~isDrawing']_vars

(* The Rectangle button was pressed with a shape on the canvas: the tool   *)
(* is Rectangle, nothing is pending, the canvas still holds its shape.     *)
C12_Witness ==
    /\ last.branch = "rect"
    /\ last.mouse = InRect
    /\ ~last.keyC
    /\ currentShapeType = "Rectangle"
    /\ ~isDrawing
    /\ last.canvas = 1
    /\ Len(shapes) = 1

(* C13: a click handled with the pointer on no button while no tool is     *)
(* selected and no click is pending changes nothing: the tool selection    *)
(* stays None, no click becomes pending, and the canvas and the undo stack *)
(* are as before (emptied when the clear key is held in the same pass);    *)
(* this is so at every such click, however many there are.                 *)
C13_IdleCanvasClickIgnored ==
    [][(/\ EventStep
        /\ ~isDrawing
        /\ currentShapeType = "None"
        /\ last'.type = "MouseButtonPressed"
        /\ ~HitsButton(last'.mouse)) =>
          /\ last'.branch = "ignored"
          /\ currentShapeType' = "None"
          /\ ~isDrawing'
          /\ startPos' = startPos
          /\ nextId' = nextId
          /\ IF last'.keyC
               THEN shapes' = <<>> /\ undoStack' = <<>>
               ELSE shapes' = shapes /\ undoStack' = undoStack]_vars

(* A canvas click was ignored while the canvas held a shape. *)
C13_Witness ==
    /\ last.branch = "ignored"
    /\ last.mouse = OnCanvas
    /\ ~last.keyC
    /\ currentShapeType = "None"
    /\ ~isDrawing
    /\ last.canvas = 1
    /\ Len(shapes) = 1

(* C14: a Save press leaves the canvas and the undo stack as they were     *)
(* (emptied when the clear key is held in the same pass) and never stops   *)
(* the run loop, whether drawing.png is written or the write fails; what   *)
(* is drawn for the export is exactly the canvas of the moment of the      *)
(* press, shape by shape in insertion order, with none of the buttons and  *)
(* not the instruction text.                                               *)
C14_SaveExportsCanvasOnly ==
    [][(EventStep /\ last'.branch = "save") =>
          /\ last'.texture = shapes
          /\ \A i \in 1..Len(last'.texture) :
                 last'.texture[i] \notin Buttons \cup {instructions}
          /\ last'.saved \in {"written", "failed"}
          /\ isOpen /\ isOpen'
          /\ currentShapeType' = currentShapeType
          /\ ~isDrawing'
          /\ IF last'.keyC
               THEN shapes' = <<>> /\ undoStack' = <<>>
               ELSE shapes' = shapes /\ undoStack' = undoStack]_vars

(* Save was pressed with two shapes on the canvas and the write failed:    *)
(* both shapes were drawn for the export, the canvas still holds them and  *)
(* the loop goes on.                                                       *)
C14_Witness ==
    /\ last.branch = "save"
    /\ last.saved = "failed"
    /\ ~last.keyC
    /\ Len(last.texture) = 2
    /\ shapes = last.texture
    /\ isOpen
    /\ pc = "events"

(* C15: the run loop ends only because the window was closed, and the      *)
(* window is closed only by a Closed event: no click, key state or command *)
(* button closes it and it never reopens; once a Closed event has been     *)
(* processed the window is closed, no further event is handled, and the    *)
(* run loop eventually ends, after which main returns normally.            *)
C15_RunEndsOnlyOnClose ==
    /\ [](pc = "done" => ~isOpen)
    /\ [][/\ (isOpen /\ ~isOpen') => (EventStep /\ last'.type = "Closed")
          /\ (EventStep /\ last'.type = "Closed") => ~isOpen'
          /\ ~isOpen => (~isOpen' /\ last' = last /\ shapes' = shapes)
          /\ (pc # "done" /\ pc' = "done") => (pc = "draw" /\ ~isOpen)]_vars
    /\ (~isOpen ~> pc = "done")

(* The run loop has ended after a Closed event, with a shape on the canvas. *)
C15_Witness ==
    /\ pc = "done"
    /\ ~isOpen
    /\ last.type = "Closed"
    /\ Len(shapes) = 1

(* The pass handled a click made at p with the pointer still at p. *)
ClickAt(l, p) == l.type = "MouseButtonPressed" /\ l.pos = p /\ l.mouse = p

(* C16 as stated, at its example: with the Rectangle tool selected the     *)
(* click at (10,10) is the start of the rectangle, which the click at      *)
(* (5,5) then commits with origin (10,10) and size (-5,-5).                *)
C16_RectangleFromTenTen ==
    [][/\ (/\ EventStep /\ ~isDrawing /\ currentShapeType = "Rectangle"
           /\ ClickAt(last', <<10, 10>>)) =>
             (isDrawing' /\ startPos' = <<10, 10>> /\ currentShapeType' = "Rectangle")
       /\ (/\ EventStep /\ isDrawing /\ currentShapeType = "Rectangle"
           /\ startPos = <<10, 10>> /\ ClickAt(last', <<5, 5>>)) =>
             (/\ shapes' # <<>>
              /\ shapes'[Len(shapes')].position = <<10, 10>>
              /\ shapes'[Len(shapes')].size = <<-5, -5>>)]_vars

(* C16, amended: with the Rectangle tool selected, a click on no button    *)
(* becomes the start and the next click, wherever it is, commits a         *)
(* rectangle whose origin is the start and whose size is end minus start   *)
(* componentwise, negative components kept; for start (5,5) and end (0,0)  *)
(* this is origin (5,5), size (-5,-5).  The point (10,10) is inside the    *)
(* Line button: a click there selects the Line tool and starts nothing.    *)
C16_RectangleOriginAndSize ==
    [][/\ (/\ EventStep /\ ~isDrawing /\ currentShapeType = "Rectangle"
           /\ last'.type = "MouseButtonPressed" /\ ~HitsButton(last'.mouse)) =>
             (isDrawing' /\ startPos' = last'.mouse /\ currentShapeType' = "Rectangle")
       /\ (/\ EventStep /\ isDrawing /\ currentShapeType = "Rectangle"
           /\ last'.type = "MouseButtonPressed") =>
             (/\ Len(shapes') = (IF last'.keyC THEN 0 ELSE Len(shapes) + 1)
              /\ ~last'.keyC =>
                    LET r == shapes'[Len(shapes')]
                    IN  /\ r.kind = "Rectangle"
                        /\ r.position = startPos
                        /\ r.size[1] = last'.pos[1] - startPos[1]
                        /\ r.size[2] = last'.pos[2] - startPos[2]
                        /\ (startPos = <<5, 5>> /\ last'.pos = <<0, 0>>) =>
                               (r.position = <<5, 5>> /\ r.size = <<-5, -5>>))
       /\ (EventStep /\ ~isDrawing /\ ClickAt(last', <<10, 10>>)) =>
             (~isDrawing' /\ currentShapeType' = "Line")]_vars

(* A rectangle from start (5,5) to end (0,0) has just been committed. *)
C16_Witness ==
    /\ last.branch = "commit"
    /\ last.pos = <<0, 0>>
    /\ shapes # <<>>
    /\ shapes[Len(shapes)].kind = "Rectangle"
    /\ shapes[Len(shapes)].position = <<5, 5>>
    /\ shapes[Len(shapes)].size = <<-5, -5>>

(* dx squared plus dy squared, from start to q. *)
DistSq(start, q) ==
    (q[1] - start[1]) * (q[1] - start[1]) + (q[2] - start[2]) * (q[2] - start[2])

(* The step commits a shape with the Circle tool, the clear key not held. *)
CircleCommit ==
    /\ EventStep
    /\ isDrawing
    /\ currentShapeType = "Circle"
    /\ last'.type = "MouseButtonPressed"
    /\ ~last'.keyC

(* C17 as stated: the radius of every committed circle is non-negative     *)
(* and its square is dx squared plus dy squared.                           *)
C17_RadiusSquaredIsDistSq ==
    [][CircleCommit =>
          LET c == shapes'[Len(shapes')]
          IN  /\ c.kind = "Circle"
              /\ c.radius.whole >= 0
              /\ c.radius.exact
              /\ c.radius.whole * c.radius.whole = DistSq(startPos, last'.pos)]_vars

(* C17, amended: the radius of every committed circle is non-negative and  *)
(* is the floating-point square root of dx squared plus dy squared: when   *)
(* that sum is a perfect square the radius is the Euclidean distance       *)
(* itself and its square is the sum (5 for start (0,0) and end (3,4), 0    *)
(* for start = end); otherwise the distance is irrational, the radius is   *)
(* its rounded value strictly between two consecutive integers, and the    *)
(* square of the radius is not the sum.                                    *)
C17_RadiusIsRoundedDistance ==
    [][CircleCommit =>
          LET c == shapes'[Len(shapes')]
              d2 == DistSq(startPos, last'.pos)
              r == c.radius
          IN  /\ c.kind = "Circle"
              /\ c.position = startPos
              /\ r.whole >= 0
              /\ r.whole * r.whole <= d2
              /\ d2 < (r.whole + 1) * (r.whole + 1)
              /\ r.exact <=> (r.whole * r.whole = d2)
              /\ (startPos = <<0, 0>> /\ last'.pos = <<3, 4>>) => (r.whole = 5 /\ r.exact)
              /\ (startPos = last'.pos) => (r.whole = 0 /\ r.exact)]_vars

(* A circle from start (0,0) to end (3,4) has just been committed, with    *)
(* radius exactly 5.                                                       *)
C17_Witness ==
    /\ last.branch = "commit"
    /\ last.pos = <<3, 4>>
    /\ shapes # <<>>
    /\ shapes[Len(shapes)].kind = "Circle"
    /\ shapes[Len(shapes)].position = <<0, 0>>
    /\ shapes[Len(shapes)].radius = [whole |-> 5, exact |-> TRUE]

(* C18: across every single event the canvas either is unchanged, or has   *)
(* gained exactly one shape at its end, or has lost exactly its last       *)
(* shape, or has become empty; its shapes are never reordered, replaced or *)
(* modified and none is inserted anywhere but at the end.                  *)
C18_CanvasChangesAtEndOnly ==
    [][\/ shapes' = shapes
       \/ /\ Len(shapes') = Len(shapes) + 1
          /\ Front(shapes') = shapes
          /\ shapes'[Len(shapes')].id \notin Ids(shapes) \cup Ids(undoStack)
       \/ /\ shapes # <<>>
          /\ shapes' = Front(shapes)
       \/ shapes' = <<>>]_vars

(* An Undo press has taken the last of two shapes off the canvas; the      *)
(* first one is still there.                                               *)
C18_Witness ==
    /\ last.branch = "undo"
    /\ ~last.keyC
    /\ last.canvas = 2
    /\ Len(shapes) = 1
    /\ Len(undoStack) = 1
    /\ shapes[1].id < undoStack[1].id

(* Point p is on the outline of the Line button as C19 describes it. *)
OnLineButtonEdge(p) ==
    \/ p[1] \in {10, 110} /\ p[2] \in 10..60
    \/ p[2] \in {10, 60} /\ p[1] \in 10..110

(* The step handles a click, with the pointer at the click, while no click *)
(* is pending, so that the buttons are tested.                             *)
ButtonTest ==
    /\ EventStep
    /\ ~isDrawing
    /\ last'.type = "MouseButtonPressed"
    /\ last'.mouse = last'.pos

(* C19 as stated: the hit test includes all four edges, so a click on any  *)
(* point of the outline of the Line button is a press of that button.      *)
C19_AllEdgesHit ==
    [][(ButtonTest /\ OnLineButtonEdge(last'.mouse)) =>
          (last'.branch = "line" /\ currentShapeType' = "Line")]_vars

(* C19, amended: the hit test includes the left and the top edge and       *)
(* excludes the right and the bottom edge: a click is a press of the Line  *)
(* button exactly when 10 <= x <= 109 and 10 <= y <= 59, so points with    *)
(* x = 110 or y = 60 hit no button and are handled as canvas clicks.       *)
C19_LeftTopEdgesHit ==
    [][ButtonTest =>
          LET p == last'.mouse
              inside == p[1] \in 10..109 /\ p[2] \in 10..59
          IN  /\ inside <=> last'.branch = "line"
              /\ inside => currentShapeType' = "Line" /\ ~isDrawing'
              /\ ~inside => /\ last'.branch = (IF currentShapeType = "None"
                                                  THEN "ignored" ELSE "start")
                             /\ currentShapeType' = currentShapeType
                             /\ isDrawing' = (currentShapeType # "None")]_vars

(* With the Line tool selected, a click on the bottom right corner of the  *)
(* Line button was taken as a canvas click and began a placement there.    *)
C19_Witness ==
    /\ last.branch = "start"
    /\ last.mouse = <<110, 60>>
    /\ isDrawing
    /\ startPos = <<110, 60>>
    /\ currentShapeType = "Line"

(* C20: there is no redo.  Across every event the undo stack is unchanged, *)
(* or has gained at its end the shape an Undo press has just taken off the *)
(* end of the canvas, or has been emptied together with the canvas by the  *)
(* Clear button or the clear key; so between two clears it only grows.  No *)
(* event puts a shape of the undo stack on the canvas, and a commit made   *)
(* after an Undo leaves the undo stack as it was.                          *)
C20_NoRedo ==
    [][/\ \/ undoStack' = undoStack
          \/ /\ EventStep
             /\ last'.branch = "undo"
             /\ ~last'.keyC
             /\ shapes # <<>>
             /\ undoStack' = Append(undoStack, shapes[Len(shapes)])
             /\ shapes' = Front(shapes)
          \/ /\ EventStep
             /\ last'.branch = "clear" \/ last'.keyC
             /\ undoStack' = <<>>
             /\ shapes' = <<>>
       /\ Ids(shapes') \cap Ids(undoStack) = {}
       /\ (EventStep /\ last'.branch = "commit" /\ ~last'.keyC) =>
             (undoStack' = undoStack /\ Len(shapes') = Len(shapes) + 1)]_vars

(* A shape was committed after an Undo: the undone shape is still on the   *)
(* undo stack and the canvas holds only the new shape.                     *)
C20_Witness ==
    /\ last.branch = "commit"
    /\ ~last.keyC
    /\ last.undone = 1
    /\ Len(undoStack) = 1
    /\ Len(shapes) = 1
    /\ undoStack[1].id < shapes[1].id

====
